---- MODULE Spec2Model ----
(***************************************************************************)
(* TinyDAG (openstack/utils.py): a dependency graph walked with Kahn's     *)
(* algorithm.  One dispatcher thread pulls ready nodes with __next__ and   *)
(* either reports their completion itself (topological_sort, the tests'    *)
(* walk loops) or hands them to pool threads that call node_done           *)
(* concurrently (test_walk_parallel, project_cleanup).                     *)
(*                                                                         *)
(* Node identifiers are opaque hashable tokens in the code; they are the   *)
(* integers 1..n here.  A dict is its key order (keys) and its mapping     *)
(* (graph).  A set is iterated in an order the code does not control, so   *)
(* every iteration order of a successor set is a behaviour.                *)
(*                                                                         *)
(* node_done takes no lock (self._lock is created and never acquired), so  *)
(* the steps of two calls interleave at bytecode granularity: the read of  *)
(* _run_in_degree[v], the store of the decremented value, the test for     *)
(* zero and the put are separate steps.                                    *)
(***************************************************************************)
EXTENDS Integers, Sequences, FiniteSets, TLC

VARIABLES
    graph,          \* self._graph: node -> set of successors
    keys,           \* insertion order of self._graph's keys
    wait_timeout,   \* self._wait_timeout
    run_in_degree,  \* self._run_in_degree
    queue,          \* self._queue (FIFO)
    done,           \* self._done
    it_cnt,         \* self._it_cnt
    driver,         \* which caller drives the walk
    pc,             \* position of the dispatcher thread
    yielded,        \* the items __next__ returned, in order
    calls,          \* calls[k]: the node_done call for the k-th yielded item
    timed_out,      \* a pull of this walk raised the timeout SDKException
    walk_no,        \* how many times __iter__ was called on the object
    raised,         \* the k whose cleanup function raised (cleanup_task)
    last_op,        \* the last graph construction call and its arguments
    again           \* the k whose node was reported done a second time

vars == <<graph, keys, wait_timeout, run_in_degree, queue, done, it_cnt,
          driver, pc, yielded, calls, timed_out, walk_no, raised, last_op,
          again>>

graphVars == <<graph, keys>>
walkVars == <<run_in_degree, queue, done, it_cnt>>
callerVars == <<driver, walk_no, raised, last_op, again>>

(* ------------------------------ bounds -------------------------------- *)

\* SpecSeq walks every graph of at most MaxNodes nodes.
MaxNodes == 3

\* Spec walks every graph of at most MaxWalkNodes nodes, and the named
\* fan-in graphs.
MaxWalkNodes == 2

\* TinyDAG._reset: self._wait_timeout = 120
DefaultTimeout == 120

\* The timeout arguments walk() is called with; 0 stands for None.
Timeouts == {0, 1}

\* SpecRewalk starts at most MaxWalks walks on the same object.
MaxWalks == 2

\* SpecBuild builds graphs with add_node, add_edge and from_dict over the
\* identifiers 1..MaxBuildNodes.
MaxBuildNodes == 2

\* ... and calls from_dict with dicts of at most MaxDictKeys keys.
MaxDictKeys == 2

(* ------------------------------ graphs -------------------------------- *)

Range(s) == {s[i] : i \in DOMAIN s}

Iota(n) == [i \in 1..n |-> i]

\* Every adjacency dict over the nodes 1..n, in insertion order 1..n, whose
\* successors are all keys (cycles and self-loops included).
GraphsOfSize(n) == [1..n -> SUBSET (1..n)]

\* p -> s, q -> s.
FanIn == (1 :> {3}) @@ (2 :> {3}) @@ (3 :> {})

\* p -> s, q -> s, s -> t.
FanInTail == (1 :> {3}) @@ (2 :> {3}) @@ (3 :> {4}) @@ (4 :> {})

\* p -> s, q -> s, q -> u, s -> t, u -> t.
FanInJoin == (1 :> {3}) @@ (2 :> {3, 5}) @@ (3 :> {4}) @@ (4 :> {}) @@ (5 :> {4})

\* p -> s, q -> s, s -> t, t -> u, u -> t: a fan-in in front of a cycle.
FanInCycle == (1 :> {3}) @@ (2 :> {3}) @@ (3 :> {4}) @@ (4 :> {5}) @@ (5 :> {4})

\* Two disjoint subgraphs: a alone, and p -> s, q -> s.
FanInApart == (1 :> {}) @@ (2 :> {4}) @@ (3 :> {4}) @@ (4 :> {})

\* test_graph of TestTinyDAG, a .. g as 1 .. 7.
TestGraph ==
    (1 :> {2, 4, 6}) @@ (2 :> {3, 4}) @@ (3 :> {4}) @@ (4 :> {5}) @@
    (5 :> {}) @@ (6 :> {5}) @@ (7 :> {5})

\* The graphs the concurrent walk is checked on.
WalkGraphs ==
    UNION {GraphsOfSize(n) : n \in 0..MaxWalkNodes}
        \cup {FanIn, FanInTail, FanInJoin, FanInCycle, FanInApart}

Nodes(g) == DOMAIN g

Edges(g) == {e \in Nodes(g) \X Nodes(g) : e[2] \in g[e[1]]}

\* The nodes reachable from u over at least one edge.
RECURSIVE ReachFrom(_, _, _)
ReachFrom(g, frontier, seen) ==
    LET next == UNION {g[w] \cap Nodes(g) : w \in frontier} \ seen
    IN  IF next = {} THEN seen ELSE ReachFrom(g, next, seen \cup next)

Descendants(g, u) == ReachFrom(g, {u}, {})

OnCycle(g, u) == u \in Descendants(g, u)

Acyclic(g) == \A u \in Nodes(g) : ~OnCycle(g, u)

Prereqs(g, v) == {u \in Nodes(g) : v \in g[u]}

(* ------------------------- graph construction ------------------------- *)

BuildIds == 1..MaxBuildNodes

\* The key orders of the dicts: at most MaxDictKeys distinct keys.  The
\* identifiers are interchangeable and from_dict discards the old graph, so
\* the keys are taken in increasing order; add_node builds the other orders.
KeyOrders(S) ==
    {s \in UNION {[1..n -> S] : n \in 0..MaxDictKeys} :
        \A i, j \in DOMAIN s : i < j => s[i] < s[j]}

\* The adjacency dicts from_dict is called with: keys in insertion order,
\* each with the identifiers it lists, keys or not.
Dicts ==
    UNION {{[ks |-> s, m |-> f] : f \in [Range(s) -> SUBSET BuildIds]} :
              s \in KeyOrders(BuildIds)}

EmptyDict == [ks |-> <<>>, m |-> <<>>]

\* The successors some key of the dict lists.
Listed(d) == UNION {d.m[k] : k \in DOMAIN d.m}

\* The (u, v) pairs the dict declares.
Declared(d) == {e \in (DOMAIN d.m) \X BuildIds : e[2] \in d.m[e[1]]}

\* The (u, v) pairs of the adjacency dict g, v a key or not.
Pairs(g) == UNION {{<<u, v>> : v \in g[u]} : u \in DOMAIN g}

\* Records of the construction calls.
NoOp == [op |-> "none", u |-> 0, v |-> 0, data |-> EmptyDict]
OpAddNode(n) == [op |-> "add_node", u |-> n, v |-> 0, data |-> EmptyDict]
OpAddEdge(u, v) == [op |-> "add_edge", u |-> u, v |-> v, data |-> EmptyDict]
OpFromDict(d) == [op |-> "from_dict", u |-> 0, v |-> 0, data |-> d]

\* _reset: self._graph = dict().  G.g is the dict, G.ks its key order.
EmptyGraph == [g |-> <<>>, ks |-> <<>>]

\* Mutant: "self._graph[node] = set()" for setdefault.
add_node_assign(G, node) ==
    [g |-> [k \in DOMAIN G.g \cup {node} |->
               IF k = node THEN {} ELSE G.g[k]],
     ks |-> IF node \in DOMAIN G.g THEN G.ks ELSE Append(G.ks, node)]

\* add_node: self._graph.setdefault(node, set())
add_node(G, node) ==
    IF node \in DOMAIN G.g
    THEN G
    ELSE [g |-> G.g @@ (node :> {}), ks |-> Append(G.ks, node)]

\* add_edge on a key u: self._graph[u].add(v).  v is not looked up.
add_edge(G, u, v) == [G EXCEPT !.g[u] = @ \cup {v}]

\* The inner loop of from_dict: add_edge(k, dep) for each dep of deps.
RECURSIVE add_edges(_, _, _)
add_edges(G, k, deps) ==
    IF deps = {}
    THEN G
    ELSE LET dep == CHOOSE x \in deps : TRUE
         IN  add_edges(add_edge(G, k, dep), k, deps \ {dep})

\* The outer loop of from_dict, from the i-th item of the dict on.
RECURSIVE from_dict_loop(_, _, _)
from_dict_loop(G, d, i) ==
    IF i > Len(d.ks)
    THEN G
    ELSE LET k == d.ks[i]
         IN  from_dict_loop(add_edges(add_node(G, k), k, d.m[k]), d, i + 1)

\* from_dict: self._reset(), then the loops.
from_dict(d) == from_dict_loop(EmptyGraph, d, 1)

\* The dependency maps over the services S that project_cleanup collects:
\* each service k, in dict order, with its 'before' and 'after' lists.
DepMaps(S) ==
    UNION {{[ks |-> s, m |-> f] :
               f \in [Range(s) -> [before : SUBSET S, after : SUBSET S]]} :
              s \in KeyOrders(S)}

OpCleanup(dm) == [op |-> "project_cleanup", u |-> 0, v |-> 0, data |-> dm]

\* project_cleanup, "for dep in v['before']: add_node(dep); add_edge(k, dep)";
\* the list is taken in increasing order.
RECURSIVE add_before(_, _, _)
add_before(G, k, deps) ==
    IF deps = {}
    THEN G
    ELSE LET dep == CHOOSE x \in deps : \A y \in deps : x <= y
         IN  add_before(add_edge(add_node(G, dep), k, dep), k, deps \ {dep})

\* project_cleanup, "for dep in v.get('after', []): add_edge(dep, k)", every
\* dep a key of the graph.
RECURSIVE add_after(_, _, _)
add_after(G, k, deps) ==
    IF deps = {}
    THEN G
    ELSE LET dep == CHOOSE x \in deps : TRUE
         IN  add_after(add_edge(G, dep, k), k, deps \ {dep})

\* project_cleanup, the loop over dependencies.items() from the i-th item
\* on.  ok is FALSE once an add_edge(dep, k) call found dep missing and
\* raised KeyError.
RECURSIVE dep_graph(_, _, _)
dep_graph(G, dm, i) ==
    IF i > Len(dm.ks)
    THEN [G |-> G, ok |-> TRUE]
    ELSE LET k == dm.ks[i]
             B == add_before(add_node(G, k), k, dm.m[k].before)
         IN  IF dm.m[k].after \subseteq DOMAIN B.g
             THEN dep_graph(add_after(B, k, dm.m[k].after), dm, i + 1)
             ELSE [G |-> B, ok |-> FALSE]

(* -------------------------- TinyDAG helpers --------------------------- *)

\* _get_in_degree raises KeyError at _in_degree[v] += 1 when a successor is
\* not a key of the graph.
Dangling(g) == \E u \in Nodes(g) : ~(g[u] \subseteq Nodes(g))

\* Mutant: "_in_degree[v] = 1" for "_in_degree[v] += 1".
GetInDegreeFlag(g) ==
    [v \in Nodes(g) |-> IF Prereqs(g, v) = {} THEN 0 ELSE 1]

\* _get_in_degree: one increment per (u, v) with v in graph[u].
GetInDegree(g) == [v \in Nodes(g) |-> Cardinality(Prereqs(g, v))]

\* Mutant: the seeding loop stops at the first zero in-degree key.
SeedQueueFirst(ks, deg) ==
    LET zs == SelectSeq(ks, LAMBDA k : deg[k] = 0)
    IN  IF zs = <<>> THEN zs ELSE <<Head(zs)>>

\* _start_traverse's seeding loop: the zero in-degree keys, in key order.
SeedQueue(ks, deg) == SelectSeq(ks, LAMBDA k : deg[k] = 0)

\* The record of a node_done call: st is the call's position, by the thread
\* making it ("d" the dispatcher, "w" a pool thread), todo the successors
\* its for loop has not visited yet, v the successor it is at, tmp the
\* in-degree it read.
NoCall == [st |-> "none", by |-> "-", todo |-> {}, v |-> 0, tmp |-> 0]

Pending(by) == [st |-> "add", by |-> by, todo |-> {}, v |-> 0, tmp |-> 0]

Never == [st |-> "never", by |-> "-", todo |-> {}, v |-> 0, tmp |-> 0]

\* The for loop of node_done moves on: to the next successor, or out.
Advance(c) ==
    [c EXCEPT !.st = IF c.todo = {} THEN "finished" ELSE "loop",
              !.v = 0, !.tmp = 0]

\* The dispatcher goes back to its loop when its own node_done call returns.
PcAfter(c) == IF c.by = "d" /\ c.st = "finished" THEN "next" ELSE pc

(* ------------------------------ Init ---------------------------------- *)

InitOn(gs, ds) ==
    /\ graph \in gs
    /\ keys = Iota(Cardinality(DOMAIN graph))
    /\ wait_timeout = DefaultTimeout
    /\ run_in_degree = <<>>
    /\ queue = <<>>
    /\ done = {}
    /\ it_cnt = 0
    /\ driver \in ds
    /\ pc = "new"
    /\ yielded = <<>>
    /\ calls = <<>>
    /\ timed_out = FALSE
    /\ walk_no = 0
    /\ raised = {}
    /\ last_op = NoOp
    /\ again = {}

\* size(): len(self._graph.keys())
size == Cardinality(DOMAIN graph)

\* Mutant: complete when every expected pull was made.
is_complete_by_count == it_cnt = 0

\* is_complete(): len(self._done) == self.size()
is_complete == Cardinality(done) = size

(* ------------------------ dispatcher actions -------------------------- *)

\* walk(timeout): "if timeout: self._wait_timeout = timeout".
Walk(t) ==
    /\ pc = "new"
    /\ driver \in {"walk", "project_cleanup"}
    /\ wait_timeout' = IF t # 0 THEN t ELSE wait_timeout
    /\ pc' = "walk"
    /\ UNCHANGED <<graphVars, walkVars, callerVars, yielded, calls, timed_out>>

\* A caller whose loop over walk() ended, by StopIteration or by the timeout
\* error, loops over walk() again, with a new list of its own.
WalkAgain(t) ==
    /\ pc \in {"stop", "timeout"}
    /\ driver = "walk"
    /\ walk_no < MaxWalks
    /\ wait_timeout' = IF t # 0 THEN t ELSE wait_timeout
    /\ yielded' = <<>>
    /\ calls' = <<>>
    /\ timed_out' = FALSE
    /\ pc' = "walk"
    /\ UNCHANGED <<graphVars, walkVars, callerVars>>

\* The walk is in progress: started, and its loop has not ended.
InProgress == pc \in {"next", "get", "body", "node_done"}

\* A second caller loops over dag.walk(t) while the first walk is in
\* progress: walk(t), then __iter__ -> _start_traverse on the same object.
\* The second loop has made no pull yet.
IterDuringWalk(t) ==
    /\ InProgress
    /\ walk_no < MaxWalks
    /\ wait_timeout' = IF t # 0 THEN t ELSE wait_timeout
    /\ run_in_degree' = GetInDegree(graph)
    /\ queue' = SeedQueue(keys, GetInDegree(graph))
    /\ done' = {}
    /\ it_cnt' = Cardinality(DOMAIN graph)
    /\ walk_no' = walk_no + 1
    /\ UNCHANGED <<graphVars, driver, again, raised, last_op, pc, yielded, calls,
                   timed_out>>

\* Mutant: the in-degree table is computed by the first walk only.
StartTraverseKeepDegree ==
    /\ pc = IF driver = "topological_sort" THEN "new" ELSE "walk"
    /\ IF Dangling(graph)
       THEN /\ pc' = "keyerror"
            /\ UNCHANGED walkVars
       ELSE /\ run_in_degree' = IF walk_no = 0 THEN GetInDegree(graph)
                                              ELSE run_in_degree
            /\ queue' = SeedQueue(keys, GetInDegree(graph))
            /\ done' = {}
            /\ it_cnt' = Cardinality(DOMAIN graph)
            /\ pc' = "next"
    /\ walk_no' = walk_no + 1
    /\ UNCHANGED <<graphVars, wait_timeout, driver, again, raised, last_op, yielded,
                   calls, timed_out>>

\* __iter__ -> _start_traverse.  topological_sort iterates self directly;
\* the walk loops iterate what walk() returned.
StartTraverse ==
    /\ pc = IF driver = "topological_sort" THEN "new" ELSE "walk"
    /\ IF Dangling(graph)
       THEN /\ pc' = "keyerror"
            /\ UNCHANGED walkVars
       ELSE /\ run_in_degree' = GetInDegree(graph)
            /\ queue' = SeedQueue(keys, GetInDegree(graph))
            /\ done' = {}
            /\ it_cnt' = Cardinality(DOMAIN graph)
            /\ pc' = "next"
    /\ walk_no' = walk_no + 1
    /\ UNCHANGED <<graphVars, wait_timeout, driver, again, raised, last_op, yielded,
                   calls, timed_out>>

\* Mutant: __next__ ends the iteration when nothing is ready.
EnterNextStopOnEmpty ==
    /\ IF it_cnt > 0 /\ queue # <<>>
       THEN /\ it_cnt' = it_cnt - 1
            /\ pc' = "get"
       ELSE /\ it_cnt' = it_cnt
            /\ pc' = "stop"
    /\ UNCHANGED <<graphVars, wait_timeout, run_in_degree, queue, done,
                   callerVars, yielded, calls, timed_out>>

\* Mutant: "if self._it_cnt >= 0" for "if self._it_cnt > 0".
EnterNextWaitAtZero ==
    /\ IF it_cnt >= 0
       THEN /\ it_cnt' = it_cnt - 1
            /\ pc' = "get"
       ELSE /\ it_cnt' = it_cnt
            /\ pc' = "stop"
    /\ UNCHANGED <<graphVars, wait_timeout, run_in_degree, queue, done,
                   callerVars, yielded, calls, timed_out>>

\* __next__ up to the blocking get: count down, or raise StopIteration.
EnterNext ==
    /\ IF it_cnt > 0
       THEN /\ it_cnt' = it_cnt - 1
            /\ pc' = "get"
       ELSE /\ it_cnt' = it_cnt
            /\ pc' = "stop"
    /\ UNCHANGED <<graphVars, wait_timeout, run_in_degree, queue, done,
                   callerVars, yielded, calls, timed_out>>

\* The for loop calls __next__.
LoopNext ==
    /\ pc = "next"
    /\ EnterNext

\* A caller calls next() again on a walk whose last pull raised.
NextAgain ==
    /\ pc \in {"stop", "timeout"}
    /\ EnterNext

\* Mutant: queue.LifoQueue for queue.Queue, the newest item is returned.
QueueGetLifo ==
    /\ pc = "get"
    /\ queue # <<>>
    /\ yielded' = Append(yielded, queue[Len(queue)])
    /\ calls' = Append(calls, NoCall)
    /\ queue' = SubSeq(queue, 1, Len(queue) - 1)
    /\ pc' = "body"
    /\ UNCHANGED <<graphVars, wait_timeout, run_in_degree, done, it_cnt,
                   callerVars, timed_out>>

\* queue.get returns the head of the queue.
QueueGet ==
    /\ pc = "get"
    /\ queue # <<>>
    /\ yielded' = Append(yielded, Head(queue))
    /\ calls' = Append(calls, NoCall)
    /\ queue' = Tail(queue)
    /\ pc' = "body"
    /\ UNCHANGED <<graphVars, wait_timeout, run_in_degree, done, it_cnt,
                   callerVars, timed_out>>

\* queue.get raises queue.Empty: the queue is empty when the wait is over.
\* The dispatcher is the only consumer, so the queue was empty all along.
QueueEmpty ==
    /\ pc = "get"
    /\ queue = <<>>
    /\ pc' = "timeout"
    /\ timed_out' = TRUE
    /\ UNCHANGED <<graphVars, wait_timeout, walkVars, callerVars, yielded, calls>>

\* Loop body: the dispatcher calls node_done itself (topological_sort,
\* test_walk, project_cleanup for a service without a cleanup function).
BodyInline ==
    /\ pc = "body"
    /\ calls' = [calls EXCEPT ![Len(calls)] = Pending("d")]
    /\ pc' = "node_done"
    /\ UNCHANGED <<graphVars, wait_timeout, walkVars, callerVars, yielded, timed_out>>

\* Loop body: the node is handed to a pool thread, which calls node_done
\* when its work is over (test_walk_parallel, cleanup_task).
BodySubmit ==
    /\ pc = "body"
    /\ calls' = [calls EXCEPT ![Len(calls)] = Pending("w")]
    /\ pc' = "next"
    /\ UNCHANGED <<graphVars, wait_timeout, walkVars, callerVars, yielded, timed_out>>

\* Loop body: completion is never reported (test_walk_raise's bad node).
BodySkip ==
    /\ pc = "body"
    /\ driver = "walk"
    /\ calls' = [calls EXCEPT ![Len(calls)] = Never]
    /\ pc' = "next"
    /\ UNCHANGED <<graphVars, wait_timeout, walkVars, callerVars, yielded, timed_out>>

\* project_cleanup, the service has a cleanup function: cleanup_task is
\* submitted to the pool, where it first runs the function.
BodySubmitTask ==
    /\ pc = "body"
    /\ driver = "project_cleanup"
    /\ calls' = [calls EXCEPT ![Len(calls)] = [Pending("w") EXCEPT !.st = "fn"]]
    /\ pc' = "next"
    /\ UNCHANGED <<graphVars, wait_timeout, walkVars, callerVars, yielded, timed_out>>

\* cleanup_task: fn() returned; finally: graph.node_done(service).
CleanupTaskReturn(k) ==
    /\ calls[k].st = "fn"
    /\ calls' = [calls EXCEPT ![k].st = "add"]
    /\ UNCHANGED <<graphVars, wait_timeout, walkVars, callerVars, pc, yielded,
                   timed_out>>

\* Mutant: node_done is the last statement of the try block, not a finally.
CleanupTaskRaiseNoFinally(k) ==
    /\ calls[k].st = "fn"
    /\ calls' = [calls EXCEPT ![k].st = "never"]
    /\ raised' = raised \cup {k}
    /\ UNCHANGED <<graphVars, wait_timeout, walkVars, driver, again, walk_no, last_op,
                   pc, yielded, timed_out>>

\* cleanup_task: fn() raised; except Exception: log.exception(...);
\* finally: graph.node_done(service).
CleanupTaskRaise(k) ==
    /\ calls[k].st = "fn"
    /\ calls' = [calls EXCEPT ![k].st = "add"]
    /\ raised' = raised \cup {k}
    /\ UNCHANGED <<graphVars, wait_timeout, walkVars, driver, again, walk_no, last_op,
                   pc, yielded, timed_out>>

\* The caller of the loop reports the k-th yielded node a second time,
\* between two pulls: node_done(node) once more, its first call returned.
NodeDoneAgain(k) ==
    /\ pc = "next"
    /\ calls[k].st = "finished"
    /\ k \notin again
    /\ again' = again \cup {k}
    /\ calls' = [calls EXCEPT ![k] = Pending("d")]
    /\ pc' = "node_done"
    /\ UNCHANGED <<graphVars, wait_timeout, walkVars, driver, walk_no, raised,
                   last_op, yielded, timed_out>>

\* project_cleanup after the dispatch loop: iterate_timeout yields a count,
\* at once on its first pull (wait_timeout is positive) and after a sleep
\* that left time on the later ones.
IterateTimeoutYield ==
    /\ pc \in {"stop", "sleep"}
    /\ driver = "project_cleanup"
    /\ pc' = "final"
    /\ UNCHANGED <<graphVars, wait_timeout, walkVars, callerVars, yielded, calls,
                   timed_out>>

\* iterate_timeout after a sleep: the time is over, raise ResourceTimeout.
IterateTimeoutRaise ==
    /\ pc = "sleep"
    /\ pc' = "resource_timeout"
    /\ UNCHANGED <<graphVars, wait_timeout, walkVars, callerVars, yielded, calls,
                   timed_out>>

\* Mutant: the body of the final loop returns without the is_complete test.
FinalCheckNoTest ==
    /\ pc = "final"
    /\ pc' = "returned"
    /\ UNCHANGED <<graphVars, wait_timeout, walkVars, callerVars, yielded, calls,
                   timed_out>>

\* The body of the final loop: "if dep_graph.is_complete(): return", else
\* back into iterate_timeout, which sleeps.
FinalCheck ==
    /\ pc = "final"
    /\ pc' = IF is_complete THEN "returned" ELSE "sleep"
    /\ UNCHANGED <<graphVars, wait_timeout, walkVars, callerVars, yielded, calls,
                   timed_out>>

\* An identifier that is not a key of the graph.
UnknownId == Cardinality(DOMAIN graph) + 1

\* Loop body: the caller reports an identifier that is not a node.
\* node_done runs self._done.add(node); then self._graph[node] raises
\* KeyError, which ends the loop.  The yielded node stays unreported.
BodyInlineUnknown ==
    /\ pc = "body"
    /\ done' = done \cup {UnknownId}
    /\ calls' = [calls EXCEPT ![Len(calls)] = Never]
    /\ pc' = "node_done_keyerror"
    /\ UNCHANGED <<graphVars, wait_timeout, run_in_degree, queue, it_cnt,
                   callerVars, yielded, timed_out>>

\* Every node handed out so far gets its node_done call (none is dropped).
NoSkip == \A k \in DOMAIN calls : calls[k].st # "never"

\* test_walk_raise: one bad node, the only one left unreported.
BodySkipBad ==
    /\ NoSkip
    /\ BodySkip

\* topological_sort: the for loop ended, return result.
Return ==
    /\ pc = "stop"
    /\ driver = "topological_sort"
    /\ pc' = "returned"
    /\ UNCHANGED <<graphVars, wait_timeout, walkVars, callerVars, yielded, calls,
                   timed_out>>

(* ------------------------- node_done, by steps ------------------------ *)

\* self._done.add(node), and the for loop over self._graph[node] starts.
NodeDoneAdd(k) ==
    /\ calls[k].st = "add"
    /\ done' = done \cup {yielded[k]}
    /\ LET c == Advance([calls[k] EXCEPT !.todo = graph[yielded[k]]])
       IN  /\ calls' = [calls EXCEPT ![k] = c]
           /\ pc' = PcAfter(c)
    /\ UNCHANGED <<graphVars, wait_timeout, run_in_degree, queue, it_cnt,
                   callerVars, yielded, timed_out>>

\* Mutant: the loop takes the successors out of the graph,
\* "while self._graph[node]: v = self._graph[node].pop()".
NodeDoneReadPop(k) ==
    /\ calls[k].st = "loop"
    /\ \E v \in calls[k].todo :
          /\ calls' = [calls EXCEPT ![k] = [@ EXCEPT !.st = "write",
                                                     !.todo = @ \ {v},
                                                     !.v = v,
                                                     !.tmp = run_in_degree[v]]]
          /\ graph' = [graph EXCEPT ![yielded[k]] = @ \ {v}]
    /\ UNCHANGED <<keys, wait_timeout, walkVars, callerVars, pc, yielded,
                   timed_out>>

\* The loop takes a successor v and reads self._run_in_degree[v].
NodeDoneRead(k) ==
    /\ calls[k].st = "loop"
    /\ \E v \in calls[k].todo :
          calls' = [calls EXCEPT ![k] = [@ EXCEPT !.st = "write",
                                                  !.todo = @ \ {v},
                                                  !.v = v,
                                                  !.tmp = run_in_degree[v]]]
    /\ UNCHANGED <<graphVars, wait_timeout, walkVars, callerVars, pc, yielded,
                   timed_out>>

\* self._run_in_degree[v] = (the value read) - 1.
NodeDoneWrite(k) ==
    /\ calls[k].st = "write"
    /\ run_in_degree' = [run_in_degree EXCEPT ![calls[k].v] = calls[k].tmp - 1]
    /\ calls' = [calls EXCEPT ![k] = [@ EXCEPT !.st = "test", !.tmp = 0]]
    /\ UNCHANGED <<graphVars, wait_timeout, queue, done, it_cnt, callerVars, pc,
                   yielded, timed_out>>

\* if self._run_in_degree[v] == 0.
NodeDoneTest(k) ==
    /\ calls[k].st = "test"
    /\ LET c == IF run_in_degree[calls[k].v] = 0
                THEN [calls[k] EXCEPT !.st = "put"]
                ELSE Advance(calls[k])
       IN  /\ calls' = [calls EXCEPT ![k] = c]
           /\ pc' = PcAfter(c)
    /\ UNCHANGED <<graphVars, wait_timeout, walkVars, callerVars, yielded, timed_out>>

\* self._queue.put(v).
NodeDonePut(k) ==
    /\ calls[k].st = "put"
    /\ queue' = Append(queue, calls[k].v)
    /\ LET c == Advance(calls[k])
       IN  /\ calls' = [calls EXCEPT ![k] = c]
           /\ pc' = PcAfter(c)
    /\ UNCHANGED <<graphVars, wait_timeout, run_in_degree, done, it_cnt,
                   callerVars, yielded, timed_out>>

(* ------------------------ construction calls -------------------------- *)

\* dag.add_node(n) on a graph no walk was started on.
AddNode(n) ==
    /\ pc = "new"
    /\ LET G == add_node([g |-> graph, ks |-> keys], n)
       IN  /\ graph' = G.g
           /\ keys' = G.ks
    /\ last_op' = OpAddNode(n)
    /\ UNCHANGED <<wait_timeout, walkVars, driver, again, walk_no, raised, pc,
                   yielded, calls, timed_out>>

\* dag.add_edge(u, v): self._graph[u] raises KeyError when u is not a key.
AddEdge(u, v) ==
    /\ pc = "new"
    /\ IF u \in DOMAIN graph
       THEN /\ graph' = add_edge([g |-> graph, ks |-> keys], u, v).g
            /\ pc' = pc
       ELSE /\ graph' = graph
            /\ pc' = "add_edge_keyerror"
    /\ last_op' = OpAddEdge(u, v)
    /\ UNCHANGED <<keys, wait_timeout, walkVars, driver, again, walk_no, raised,
                   yielded, calls, timed_out>>

\* dag.from_dict(d); _reset also sets self._wait_timeout = 120.
FromDict(d) ==
    /\ pc = "new"
    /\ LET G == from_dict(d)
       IN  /\ graph' = G.g
           /\ keys' = G.ks
    /\ wait_timeout' = DefaultTimeout
    /\ last_op' = OpFromDict(d)
    /\ UNCHANGED <<walkVars, driver, again, walk_no, raised, pc, yielded, calls,
                   timed_out>>

\* project_cleanup builds dep_graph from the dependency map dm; a KeyError
\* of add_edge leaves project_cleanup.
BuildDepGraph(dm) ==
    /\ pc = "new"
    /\ driver = "project_cleanup"
    /\ last_op = NoOp
    /\ LET r == dep_graph(EmptyGraph, dm, 1)
       IN  /\ graph' = r.G.g
           /\ keys' = r.G.ks
           /\ pc' = IF r.ok THEN pc ELSE "add_edge_keyerror"
    /\ last_op' = OpCleanup(dm)
    /\ UNCHANGED <<wait_timeout, walkVars, driver, again, walk_no, raised,
                   yielded, calls, timed_out>>

(* --------------------------- specifications --------------------------- *)

\* The concurrent walk: one dispatcher, pool threads calling node_done.
Init == InitOn(WalkGraphs, {"walk"})

Next ==
    \/ \E t \in Timeouts : Walk(t)
    \/ StartTraverse
    \/ LoopNext
    \/ NextAgain
    \/ QueueGet
    \/ QueueEmpty
    \/ BodyInline
    \/ BodySubmit
    \/ BodySkip
    \/ \E k \in DOMAIN calls : NodeDoneAdd(k)
    \/ \E k \in DOMAIN calls : NodeDoneRead(k)
    \/ \E k \in DOMAIN calls : NodeDoneWrite(k)
    \/ \E k \in DOMAIN calls : NodeDoneTest(k)
    \/ \E k \in DOMAIN calls : NodeDonePut(k)

Spec == Init /\ [][Next]_vars

\* The single-threaded walk: topological_sort, and the walk loops of
\* test_walk and test_walk_raise, on every graph of at most MaxNodes nodes.
SeqGraphs == UNION {GraphsOfSize(n) : n \in 0..MaxNodes}

InitSeq == InitOn(SeqGraphs, {"topological_sort", "walk"})

NextSeq ==
    \/ \E t \in Timeouts : Walk(t)
    \/ StartTraverse
    \/ LoopNext
    \/ QueueGet
    \/ QueueEmpty
    \/ BodyInline
    \/ BodySkipBad
    \/ Return
    \/ \E k \in DOMAIN calls : NodeDoneAdd(k)
    \/ \E k \in DOMAIN calls : NodeDoneRead(k)
    \/ \E k \in DOMAIN calls : NodeDoneWrite(k)
    \/ \E k \in DOMAIN calls : NodeDoneTest(k)
    \/ \E k \in DOMAIN calls : NodeDonePut(k)

SpecSeq == InitSeq /\ [][NextSeq]_vars

\* The dispatcher thread always takes its next step and a timed wait always
\* ends, so a single-threaded walk that can move does move.
SpecSeqFair == InitSeq /\ [][NextSeq]_vars /\ WF_vars(NextSeq)

\* The dispatch loop of project_cleanup, the cleanup_task calls it submits
\* and the final wait; the timeout error of a pull leaves project_cleanup.
CleanupGraphs == UNION {GraphsOfSize(n) : n \in 0..MaxWalkNodes} \cup {FanIn}

InitCleanup == InitOn(CleanupGraphs, {"project_cleanup"})

NextCleanup ==
    \/ \E t \in Timeouts : Walk(t)
    \/ StartTraverse
    \/ LoopNext
    \/ QueueGet
    \/ QueueEmpty
    \/ BodyInline
    \/ BodySubmitTask
    \/ IterateTimeoutYield
    \/ IterateTimeoutRaise
    \/ FinalCheck
    \/ \E k \in DOMAIN calls : CleanupTaskReturn(k)
    \/ \E k \in DOMAIN calls : CleanupTaskRaise(k)
    \/ \E k \in DOMAIN calls : NodeDoneAdd(k)
    \/ \E k \in DOMAIN calls : NodeDoneRead(k)
    \/ \E k \in DOMAIN calls : NodeDoneWrite(k)
    \/ \E k \in DOMAIN calls : NodeDoneTest(k)
    \/ \E k \in DOMAIN calls : NodeDonePut(k)

SpecCleanup == InitCleanup /\ [][NextCleanup]_vars

\* Single-threaded walk loops, one after the other on the same object; a
\* loop may leave nodes unreported.
InitRewalk == InitOn(WalkGraphs, {"walk"})

NextRewalk ==
    \/ \E t \in Timeouts : Walk(t)
    \/ \E t \in Timeouts : WalkAgain(t)
    \/ StartTraverse
    \/ LoopNext
    \/ QueueGet
    \/ QueueEmpty
    \/ BodyInline
    \/ BodySkip
    \/ \E k \in DOMAIN calls : NodeDoneAdd(k)
    \/ \E k \in DOMAIN calls : NodeDoneRead(k)
    \/ \E k \in DOMAIN calls : NodeDoneWrite(k)
    \/ \E k \in DOMAIN calls : NodeDoneTest(k)
    \/ \E k \in DOMAIN calls : NodeDonePut(k)

SpecRewalk == InitRewalk /\ [][NextRewalk]_vars

\* A single-threaded walk loop, and a second walk started on the object
\* while the loop is running.
NextTwoWalks ==
    \/ \E t \in Timeouts : Walk(t)
    \/ \E t \in Timeouts : IterDuringWalk(t)
    \/ StartTraverse
    \/ LoopNext
    \/ QueueGet
    \/ QueueEmpty
    \/ BodyInline
    \/ BodySkip
    \/ \E k \in DOMAIN calls : NodeDoneAdd(k)
    \/ \E k \in DOMAIN calls : NodeDoneRead(k)
    \/ \E k \in DOMAIN calls : NodeDoneWrite(k)
    \/ \E k \in DOMAIN calls : NodeDoneTest(k)
    \/ \E k \in DOMAIN calls : NodeDonePut(k)

SpecTwoWalks == InitRewalk /\ [][NextTwoWalks]_vars

\* test_topological_sort and test_walk: topological_sort, and the walk loop
\* with immediate node_done, on test_graph.
InitTest == InitOn({TestGraph}, {"topological_sort", "walk"})

NextTest ==
    \/ \E t \in Timeouts : Walk(t)
    \/ StartTraverse
    \/ LoopNext
    \/ QueueGet
    \/ BodyInline
    \/ Return
    \/ \E k \in DOMAIN calls : NodeDoneAdd(k)
    \/ \E k \in DOMAIN calls : NodeDoneRead(k)
    \/ \E k \in DOMAIN calls : NodeDoneWrite(k)
    \/ \E k \in DOMAIN calls : NodeDoneTest(k)
    \/ \E k \in DOMAIN calls : NodeDonePut(k)

SpecTest == InitTest /\ [][NextTest]_vars

\* A single-threaded walk loop with immediate node_done in which a node may
\* be reported a second time.
NextAgainReport ==
    \/ \E t \in Timeouts : Walk(t)
    \/ StartTraverse
    \/ LoopNext
    \/ QueueGet
    \/ QueueEmpty
    \/ BodyInline
    \/ \E k \in DOMAIN calls : NodeDoneAgain(k)
    \/ \E k \in DOMAIN calls : NodeDoneAdd(k)
    \/ \E k \in DOMAIN calls : NodeDoneRead(k)
    \/ \E k \in DOMAIN calls : NodeDoneWrite(k)
    \/ \E k \in DOMAIN calls : NodeDoneTest(k)
    \/ \E k \in DOMAIN calls : NodeDonePut(k)

SpecAgainReport == InitRewalk /\ [][NextAgainReport]_vars

\* A single-threaded walk loop in which the caller may report an identifier
\* that is not a node.
NextUnknown ==
    \/ \E t \in Timeouts : Walk(t)
    \/ StartTraverse
    \/ LoopNext
    \/ QueueGet
    \/ QueueEmpty
    \/ BodyInline
    \/ BodyInlineUnknown
    \/ \E k \in DOMAIN calls : NodeDoneAdd(k)
    \/ \E k \in DOMAIN calls : NodeDoneRead(k)
    \/ \E k \in DOMAIN calls : NodeDoneWrite(k)
    \/ \E k \in DOMAIN calls : NodeDoneTest(k)
    \/ \E k \in DOMAIN calls : NodeDonePut(k)

SpecUnknown == InitRewalk /\ [][NextUnknown]_vars

\* project_cleanup from the dependency map on: the graph is built, then
\* walked as in SpecCleanup.
InitDeps == InitOn({<<>>}, {"project_cleanup"})

NextDeps ==
    \/ \E dm \in DepMaps(BuildIds) : BuildDepGraph(dm)
    \/ NextCleanup

SpecDeps == InitDeps /\ [][NextDeps]_vars

\* Construction: any sequence of add_node, add_edge and from_dict calls on
\* TinyDAG(), and then the start of a walk on what was built.
InitBuild == InitOn({<<>>}, {"topological_sort"})

NextBuild ==
    \/ \E n \in BuildIds : AddNode(n)
    \/ \E u, v \in BuildIds : AddEdge(u, v)
    \/ \E d \in Dicts : FromDict(d)
    \/ StartTraverse

SpecBuild == InitBuild /\ [][NextBuild]_vars

\* Construction node by node and edge by edge only, as project_cleanup and
\* test_add_node_after_edge do it.
NextInsert ==
    \/ \E n \in BuildIds : AddNode(n)
    \/ \E u, v \in BuildIds : AddEdge(u, v)
    \/ StartTraverse

SpecInsert == InitBuild /\ [][NextInsert]_vars

(* ------------------------- vocabulary of the claims ------------------- *)

Count(s, x) == Cardinality({i \in DOMAIN s : s[i] = x})

N == Cardinality(Nodes(graph))

Started == pc \notin {"new", "walk", "keyerror"}

\* Every node handed out so far has had its node_done call return.
AllReported == \A k \in DOMAIN calls : calls[k].st = "finished"

\* u is yielded at an earlier position than v.
Before(u, v) ==
    \E i, j \in DOMAIN yielded : i < j /\ yielded[i] = u /\ yielded[j] = v

\* How often v was put on the ready queue by node_done (v not a seed).
Enqueued(v) == Count(queue, v) + Count(yielded, v)

\* node_done(v) was called in this walk and has executed its first
\* statement.
Reported(v) ==
    \E k \in DOMAIN calls :
        /\ yielded[k] = v
        /\ calls[k].st \in {"loop", "write", "test", "put", "finished"}

\* The node_done call for the k-th yielded item was made.
InNodeDone(k) ==
    calls[k].st \in {"add", "loop", "write", "test", "put", "finished"}

\* A and the rest of the graph are two disjoint subgraphs: no edge leads
\* from one into the other.
Disjoint(A) ==
    /\ A # {}
    /\ A # Nodes(graph)
    /\ \A e \in Pairs(graph) : e[1] \in A <=> e[2] \in A

\* No node_done call was made for a node of A.
NoneReported(A) ==
    \A k \in DOMAIN calls : yielded[k] \in A => ~InNodeDone(k)

\* The node_done call for u has returned.
Finished(u) ==
    \E k \in DOMAIN calls : yielded[k] = u /\ calls[k].st = "finished"

\* No node_done call is in progress.
NoCallInProgress ==
    \A k \in DOMAIN calls : calls[k].st \in {"none", "never", "finished"}

\* node_done was called at most once for each node.
CalledOncePerNode ==
    \A j, k \in DOMAIN calls :
        (InNodeDone(j) /\ InNodeDone(k) /\ yielded[j] = yielded[k]) => j = k

\* The orders in which a for loop can iterate over the set S.
IterOrders(S) ==
    {o \in [1..Cardinality(S) -> S] :
        \A i, j \in DOMAIN o : i # j => o[i] # o[j]}

\* node_done run to its end on table and queue r, visiting the successors
\* in the order o, from the i-th on.
RECURSIVE NodeDoneRun(_, _, _)
NodeDoneRun(r, o, i) ==
    IF i > Len(o)
    THEN r
    ELSE LET v == o[i]
             d == r.deg[v] - 1
         IN  NodeDoneRun([deg |-> [r.deg EXCEPT ![v] = d],
                          q |-> IF d = 0 THEN Append(r.q, v) ELSE r.q],
                         o, i + 1)

\* The yield sequences of a single-threaded walk with immediate node_done,
\* from table deg and queue q on, until the queue is found empty: one for
\* each choice of iteration orders.
RECURSIVE WalkRuns(_, _)
WalkRuns(deg, q) ==
    IF q = <<>>
    THEN {<<>>}
    ELSE UNION {LET r == NodeDoneRun([deg |-> deg, q |-> Tail(q)], o, 1)
                IN  {<<Head(q)>> \o t : t \in WalkRuns(r.deg, r.q)} :
                    o \in IterOrders(graph[Head(q)])}

\* The position of the key k in the node table.
KeyPos(k) == CHOOSE i \in DOMAIN keys : keys[i] = k

\* A step of the thread that runs project_cleanup: of the dispatch loop, of
\* a node_done call it makes itself, or of the final wait.
DispatcherStep ==
    \/ \E t \in Timeouts : Walk(t)
    \/ StartTraverse
    \/ LoopNext
    \/ QueueGet
    \/ QueueEmpty
    \/ BodyInline
    \/ BodySubmitTask
    \/ IterateTimeoutYield
    \/ IterateTimeoutRaise
    \/ FinalCheck
    \/ \E k \in DOMAIN calls :
          /\ calls[k].by = "d"
          /\ \/ NodeDoneAdd(k)
             \/ NodeDoneRead(k)
             \/ NodeDoneWrite(k)
             \/ NodeDoneTest(k)
             \/ NodeDonePut(k)

\* The k-th yielded node was never reported and has a successor.
SkippedWithSuccessor ==
    \E k \in DOMAIN calls : calls[k].st = "never" /\ graph[yielded[k]] # {}

(* ------------------------------ claims -------------------------------- *)

\* C1: in a walk in which every handed-out node gets one node_done call and
\* no pull timed out, every yielded node has all its direct prerequisites in
\* the completed set.
C1_YieldAfterPrereqs ==
    (NoSkip /\ ~timed_out) =>
        \A k \in DOMAIN yielded : Prereqs(graph, yielded[k]) \subseteq done

\* C2: on the fan-in graph p -> s <- q, s is put on the ready queue at most
\* once, only when p and q are both in the completed set, and it has been
\* put once both node_done calls have returned.
C2_FanInOnce ==
    graph = FanIn =>
        /\ Enqueued(3) <= 1
        /\ Enqueued(3) >= 1 => {1, 2} \subseteq done
        /\ (Len(calls) >= 2 /\ calls[1].st = "finished" /\ calls[2].st = "finished")
               => Enqueued(3) = 1

\* C3: when a single-threaded loop that reports every node as soon as it is
\* yielded (topological_sort, test_walk) has ended on an acyclic graph, the
\* yielded sequence has u strictly before v for every edge u -> v.
C3_TopologicalOrder ==
    (Acyclic(graph) /\ NoSkip /\ pc \in {"stop", "returned"}) =>
        \A e \in Edges(graph) : Before(e[1], e[2])

C3_Witness ==
    /\ Acyclic(graph) /\ NoSkip /\ pc = "stop" /\ driver = "walk"
    /\ Cardinality(Edges(graph)) >= 2

\* C4: topological_sort on an acyclic graph never fails, and the sequence it
\* returns has exactly N entries, every node of the graph exactly once.
C4_SortComplete ==
    (Acyclic(graph) /\ driver = "topological_sort") =>
        /\ pc \notin {"timeout", "keyerror"}
        /\ pc = "returned" =>
              /\ Len(yielded) = N
              /\ \A u \in Nodes(graph) : Count(yielded, u) = 1

C4_Witness ==
    /\ driver = "topological_sort" /\ pc = "returned"
    /\ N >= 3 /\ Edges(graph) # {}

\* C5: a walk yields at most N items and no node more than once.
C5_YieldOnce ==
    (NoSkip /\ ~timed_out) =>
        /\ Len(yielded) <= N
        /\ \A u \in Nodes(graph) : Count(yielded, u) <= 1

\* C6: on an acyclic graph, when every handed-out node has been reported
\* done (once each) and no pull timed out, the walk is never stuck: the
\* ready queue is not empty or every node has been yielded.
C6_NeverStuck ==
    (Acyclic(graph) /\ Started /\ AllReported /\ ~timed_out) =>
        (queue # <<>> \/ Range(yielded) = Nodes(graph))

\* C7: a pull raises the timeout error only when the queue is empty and not
\* all N nodes were yielded; a pull never ends with StopIteration while an
\* item is in the ready queue, nor while the queue is empty for good (no
\* node_done call outstanding) and some node was not yielded.
C7_TimeoutExactly ==
    [][/\ (pc = "get" /\ pc' = "timeout") =>
              (queue = <<>> /\ Range(yielded) # Nodes(graph))
       /\ (pc # "stop" /\ pc' = "stop") =>
              /\ queue = <<>>
              /\ ~(AllReported /\ Range(yielded) # Nodes(graph))]_vars

\* C8: no node on a cycle is ever yielded, and on a graph with a cycle the
\* loop never ends with StopIteration without a pull having timed out.
C8_CycleTimesOut ==
    /\ \A k \in DOMAIN yielded : ~OnCycle(graph, yielded[k])
    /\ (pc \in {"stop", "returned"} /\ ~timed_out) => Acyclic(graph)

C9_EventuallyTimeout == SkippedWithSuccessor ~> pc = "timeout"

C10_StopOnlyWhenAllYielded ==
    pc = "stop" => Range(yielded) = Nodes(graph)

\* C11: once a pull of the walk has raised the timeout error, no later step
\* hands out a node and no later pull raises StopIteration, also when a late
\* node_done call has put a successor on the queue in between.
C11_TimeoutTerminal ==
    [][timed_out =>
          /\ yielded' = yielded
          /\ pc # "stop" => pc' # "stop"]_vars

\* C12: after any sequence of add_node, add_edge and from_dict calls every
\* identifier that is an edge endpoint is a key of the adjacency dict, and
\* no add_edge call raised.
C12_EndpointsAreNodes ==
    /\ pc # "add_edge_keyerror"
    /\ ~Dangling(graph)

\* C13: inserting again changes nothing: an add_node(n) call on a graph that
\* has the key n, and an add_edge(u, v) call on a graph in which v is in the
\* successor set of u, leave the adjacency dict and its key order as they
\* were.
C13_InsertIdempotent ==
    [][/\ (last_op'.op = "add_node" /\ last_op'.u \in DOMAIN graph)
            => UNCHANGED graphVars
       /\ (/\ last_op'.op = "add_edge"
           /\ last_op'.u \in DOMAIN graph
           /\ last_op'.v \in graph[last_op'.u])
            => UNCHANGED graphVars]_vars

\* test_add_node_after_edge: add_node(1), add_edge(1, 2), add_node(1) was
\* called and 1 still has its successor.
C13_Witness ==
    /\ last_op = OpAddNode(1)
    /\ 1 \in DOMAIN graph
    /\ graph[1] = {2}

\* C14: after from_dict(d), on a graph with any content, the nodes are the
\* keys of d and every successor d lists, the edges are the pairs d declares,
\* and starting a walk on the result does not raise.
C14_FromDictReplaces ==
    last_op.op = "from_dict" =>
        /\ Nodes(graph) = DOMAIN last_op.data.m \cup Listed(last_op.data)
        /\ Pairs(graph) = Declared(last_op.data)
        /\ pc # "keyerror"

\* C15: on a graph with no nodes the first pull raises StopIteration without
\* waiting on the queue, nothing is yielded, and topological_sort returns
\* the empty list.
C15_EmptyWalkStops ==
    (N = 0 /\ Started) =>
        /\ pc \in {"next", "stop", "returned"}
        /\ yielded = <<>>
        /\ ~timed_out

\* topological_sort() of the empty graph has returned [].
C15_Witness ==
    /\ N = 0
    /\ driver = "topological_sort"
    /\ pc = "returned"
    /\ yielded = <<>>

\* C16: a walk started after an earlier walk on the same graph ended, by
\* StopIteration or by timeout, starts from fresh state: the in-degree table
\* counts the direct prerequisites, the queue holds exactly the nodes
\* without prerequisites, the completed set is empty and N yields are
\* expected.  On an acyclic graph it times out only if a node it handed out
\* is left unreported, and when it ends it has yielded every node exactly
\* once, prerequisites first.
C16_WalkStateReset ==
    walk_no >= 2 =>
        /\ (pc = "next" /\ yielded = <<>>) =>
               /\ \A v \in Nodes(graph) :
                      run_in_degree[v] = Cardinality(Prereqs(graph, v))
               /\ Range(queue) = {v \in Nodes(graph) : Prereqs(graph, v) = {}}
               /\ Len(queue) = Cardinality(Range(queue))
               /\ done = {}
               /\ it_cnt = N
        /\ (Acyclic(graph) /\ NoSkip /\ Started) => ~timed_out
        /\ (Acyclic(graph) /\ pc = "stop") =>
               /\ \A v \in Nodes(graph) : Count(yielded, v) = 1
               /\ \A e \in Edges(graph) : Before(e[1], e[2])

\* The second walk of p -> s <- q has ended and has yielded all three nodes.
C16_Witness ==
    /\ walk_no = 2
    /\ graph = FanIn
    /\ pc = "stop"
    /\ Len(yielded) = 3
    /\ wait_timeout = 1

C18_NodeDoneOncePerService ==
    /\ [](\A k \in DOMAIN calls :
             /\ calls[k].st # "never"
             /\ calls[k].st = "none" => (k = Len(calls) /\ pc = "body")
             /\ calls[k].st = "fn" => calls[k].by = "w"
             /\ k \in raised => (calls[k].by = "w" /\ InNodeDone(k)))
    /\ [][\A k \in DOMAIN calls :
             InNodeDone(k) =>
                 /\ yielded'[k] = yielded[k]
                 /\ calls'[k].by = calls[k].by
                 /\ InNodeDone(k)'
                 /\ calls[k].st # "add" => calls'[k].st # "add"]_vars

\* The cleanup function of a service raised, node_done for it returned, and
\* a service that depends on it was handed out afterwards.
C18_Witness ==
    \E k \in raised :
        /\ calls[k].st = "finished"
        /\ \E j \in DOMAIN yielded : j > k /\ yielded[j] \in graph[yielded[k]]

\* C19: when the graph is made of two disjoint subgraphs A and B and no
\* node of A was reported done, a node of B whose direct prerequisites were
\* all reported done (their node_done calls have returned) is on the ready
\* queue or was yielded, as long as no pull timed out.
C19_IndependentBranches ==
    \A A \in SUBSET Nodes(graph) :
        (Started /\ ~timed_out /\ Disjoint(A) /\ NoneReported(A)) =>
            \A v \in Nodes(graph) \ A :
                (\A u \in Prereqs(graph, v) : Finished(u)) =>
                    v \in Range(queue) \cup Range(yielded)

\* C20: at every state of a walk in which no node_done call is in progress
\* and node_done was called at most once per node, the in-degree table maps
\* every node to the number of its direct prerequisites that are not in the
\* completed set, and no entry is negative.
C20_InDegreeCountsOpenPrereqs ==
    (Started /\ NoCallInProgress /\ CalledOncePerNode) =>
        \A v \in Nodes(graph) :
            /\ run_in_degree[v] = Cardinality(Prereqs(graph, v) \ done)
            /\ run_in_degree[v] >= 0

\* C21: at every state of a walk every identifier on the ready queue is a
\* node whose in-degree is zero and that was not yielded yet, and no
\* identifier is on the queue twice.
C21_ReadyQueue ==
    Started =>
        \A i \in DOMAIN queue :
            /\ queue[i] \in Nodes(graph)
            /\ run_in_degree[queue[i]] = 0
            /\ queue[i] \notin Range(yielded)
            /\ Count(queue, queue[i]) = 1

\* A step that yields an item yields the head of the queue.
PullsOldest ==
    yielded' # yielded =>
        /\ queue # <<>>
        /\ yielded' = Append(yielded, Head(queue))
        /\ queue' = Tail(queue)

\* A step of a started walk that changes the queue without yielding appends
\* one node to it.
PutsLast ==
    (pc # "new" /\ pc # "walk" /\ yielded' = yielded /\ queue' # queue) =>
        \E v \in Nodes(graph) : queue' = Append(queue, v)

\* C22: when a walk starts the ready queue holds exactly the nodes without
\* prerequisites, in the order of the node table; a pull returns the oldest
\* item and node_done puts at the end; so the yields of a single-threaded
\* walk with immediate node_done are those of a run in which only the
\* iteration order of the successor sets was chosen.
C22_SeedOrderAndFifo ==
    /\ []((pc = "next" /\ yielded = <<>>) =>
             /\ Range(queue) = {v \in Nodes(graph) : Prereqs(graph, v) = {}}
             /\ \A i, j \in DOMAIN queue :
                    i < j => KeyPos(queue[i]) < KeyPos(queue[j]))
    /\ []((NoSkip /\ pc \in {"stop", "returned", "timeout"}) =>
             yielded \in WalkRuns(
                 [v \in Nodes(graph) |-> Cardinality(Prereqs(graph, v))],
                 SelectSeq(keys, LAMBDA k : Prereqs(graph, k) = {})))
    /\ [][PullsOldest /\ PutsLast]_vars

\* topological_sort of p -> s <- q returned p, q, s.
C22_Witness ==
    /\ driver = "topological_sort"
    /\ pc = "returned"
    /\ graph = FanIn
    /\ yielded = <<1, 2, 3>>

\* C23: the wait timeout is chosen per walk: after walk(timeout=t) the pulls
\* wait t, and after walk() without timeout they wait the default of 120,
\* whatever timeout an earlier walk on the object was started with.
C23_TimeoutPerWalk ==
    [][\A t \in Timeouts :
          (Walk(t) \/ WalkAgain(t)) =>
              wait_timeout' = IF t = 0 THEN DefaultTimeout ELSE t]_vars

\* C24: starting a second walk on the object while the first is in progress
\* leaves the in-degree table, the ready queue, the completed set and the
\* expected-yield count of the first walk as they were.
C24_WalkOwnsItsState ==
    [][(InProgress /\ walk_no' > walk_no) => UNCHANGED walkVars]_vars

\* C26: no step of a walk changes the graph: starting the walk, a pull that
\* yields, times out or ends, and every step of a node_done call leave the
\* adjacency dict, its keys and every successor set, as they were.
C26_WalkKeepsGraph ==
    [][graph' = graph /\ keys' = keys]_vars

\* A walk of p -> s <- q in which a pull timed out, a pull ended the
\* iteration and a node_done call returned.
C26_Witness ==
    /\ graph = FanIn
    /\ timed_out
    /\ pc = "stop"
    /\ \E k \in DOMAIN calls : calls[k].st = "finished"

\* C25: on test_graph, topological_sort and the walk loop with immediate
\* node_done never find the queue empty, and end with all 7 identifiers
\* yielded, every edge's source before its target (a before b, d, f; b
\* before c, d; c before d; d, f, g before e) and e last, for every
\* iteration order of the successor sets.
C25_TestGraphOrder ==
    /\ pc = "get" => queue # <<>>
    /\ pc \in {"stop", "returned"} =>
           /\ Len(yielded) = 7
           /\ Range(yielded) = 1..7
           /\ \A e \in Pairs(TestGraph) : Before(e[1], e[2])
           /\ yielded[7] = 5

\* topological_sort of test_graph has returned, f before b.
C25_Witness ==
    /\ graph = TestGraph
    /\ driver = "topological_sort"
    /\ pc = "returned"
    /\ Before(6, 2)

\* C27: a second node_done(n) for a node n that is in the completed set
\* changes neither the in-degree table nor the ready queue: no step of the
\* second call does.
C27_NodeDoneIdempotent ==
    [][(\E k \in again : calls[k].st # "finished") =>
          UNCHANGED <<run_in_degree, queue>>]_vars

\* C28: project_cleanup returns only in a state in which every node of the
\* dependency graph was reported done and is_complete() is true; it ends in
\* no other way than by returning, by the timeout error of a pull of the
\* dispatch loop or by the ResourceTimeout of the final wait: anywhere else
\* the dispatcher thread has a next step.
C28_ReturnsOnlyComplete ==
    /\ pc = "returned" =>
           /\ is_complete
           /\ \A v \in Nodes(graph) : Reported(v)
           /\ ~timed_out
    /\ pc = "timeout" => timed_out
    /\ pc \notin {"returned", "timeout", "resource_timeout"} =>
           ENABLED DispatcherStep

\* project_cleanup returned after a cleanup function raised on a pool
\* thread.
C28_Witness ==
    /\ pc = "returned"
    /\ N >= 2
    /\ raised # {}

\* C29: a node_done call with an identifier that is not a node leaves the
\* walk state as it was: at every state of a walk the completed set is a
\* subset of the node set, and the step that fails changes neither the
\* in-degree table nor the ready queue.
C29_UnknownIdRejected ==
    /\ [](Started => done \subseteq Nodes(graph))
    /\ [][pc' = "node_done_keyerror" => UNCHANGED <<run_in_degree, queue>>]_vars

\* C30: for every dependency map, project_cleanup builds the graph without
\* raising, with an edge k -> d for each d in the 'before' list of k and an
\* edge d -> k for each d in its 'after' list, also when d is no node
\* otherwise.
C30_BeforeAfterEdges ==
    last_op.op = "project_cleanup" =>
        /\ pc # "add_edge_keyerror"
        /\ \A k \in DOMAIN last_op.data.m :
               /\ \A d \in last_op.data.m[k].before : <<k, d>> \in Pairs(graph)
               /\ \A d \in last_op.data.m[k].after : <<d, k>> \in Pairs(graph)

====
